---- MODULE Spec2Model ----
(***************************************************************************)
(* Nonce sequencing of the MegaETH transaction pipeline.                   *)
(*                                                                         *)
(*   NonceManager        the backend/bot pattern: a map of last-used       *)
(*                       nonces and a map of lock promises, both keyed by  *)
(*                       address                                           *)
(*   getNextNonce/3      the lock-free tracker keyed by chain id           *)
(*   sendTransaction     the hook's inline tracker followed by signing     *)
(*                       and submission                                    *)
(*                                                                         *)
(* A JavaScript async function runs without interruption between two       *)
(* awaits, so every action below is one such run-to-completion segment.    *)
(***************************************************************************)
EXTENDS Integers, Sequences, FiniteSets

\* ---------------------------------------------------------------- bounds
MaxCalls == 3
NumAddr == 2
MaxNet == 2
MaxSeed == 4
NumChains == 2
MaxTx == 2
MaxWarm == 3
MaxEffect == 2
MaxChainId == 3
MaxRecovery == 28
MaxFill == 2
MaxRetriesArg == 3
MaxHead == 2
MaxSigned == 2
MaxSends == 2
MaxHookTx == 1
MaxClock == 5
MaxEqSeed == 3
MaxEqNet == 5
MaxEqSteps == 4
MaxSockets == 3
MaxSent == 2
NumCallbacks == 1
MaxSubscribeCalls == 2
MaxMessages == 1
MaxParts == 3
MaxWhole == 3
MaxOff == 4

Calls == 1..MaxCalls
Addresses == 1..NumAddr
NetCounts == 0..MaxNet
Chains == 1..NumChains
Txs == 1..MaxTx
Warmups == 1..MaxWarm
Effects == 1..MaxEffect
\* const CHAIN_ID = 6343
CHAIN_ID == 6343
ChainIds == (1..MaxChainId) \cup {CHAIN_ID}
RecoveryBytes == 0..MaxRecovery
RetryArgs == 0..MaxRetriesArg
Signed == 0..(MaxSigned - 1)
HookTxs == 1..MaxHookTx

\* Map.get of a missing key, and a call that holds no value yet.
None == -1

\* The networkNonce of a call whose getTransactionCount threw.
NetError == -2

VARIABLES
    nonces,      \* NonceManager.nonces: address -> last used nonce, None when absent
    locks,       \* NonceManager.locks: address -> the promise stored, named by the call that made it
    resolved,    \* the lock promises whose resolve() has run
    pc,          \* position of each getNextNonce call
    addr,        \* its address argument
    waitOn,      \* the promise it awaits at `await existing`
    net,         \* the networkNonce its query returned
    last,        \* the lastUsed it read
    result,      \* the nonce it returned
    hist,        \* per address, the calls that returned a nonce, in order of return
    epoch,       \* per address, the length of hist at the last reset
    \* the tracker keyed by chain id
    lastNonceRef, \* lastNonceRef.current: chain id -> last used nonce, None when absent
    tPc,         \* position of each getNextNonce(client, address, chainId) call
    tAddr,       \* its address argument
    tChain,      \* its chainId argument
    tNet,        \* the pending count its query returned
    tResult,     \* the nonce it returned
    tHist,       \* per chain, the calls that returned a nonce, in order of return
    \* the useMegaETHTransaction hook
    hookLast,    \* lastNonceRef.current of the hook
    txPc,        \* position of each sendTransaction call
    txNet,       \* the pending count its query returned
    txNonce,     \* the nonce of its unsigned transaction
    txAfter,     \* the calls that had thrown when it took its nonce
    accepted,    \* the nonces of the wallet the endpoint has executed
    txPosts,     \* how often the call posted realtime_sendRawTransaction
    txResponse,  \* what the response to its post carried: "receipt" or the error's message
    txThrown,    \* the message of the error the call threw
    isWarmedUp,  \* isWarmedUp.current of the hook
    hwPc,        \* position of each run of the hook's warmup effect
    hwSigns,     \* the dummy secp256k1_sign requests it has issued
    hwOverlap,   \* the runs that were in flight when it started
    \* useSigningWarmup
    swPc,        \* position of each run of the effect and its warmup()
    swSigns,     \* the dummy secp256k1_sign requests it has issued
    swFailed,    \* the dummy requests of it that were rejected
    swLogged,    \* it has logged '[Privy] Signing path warmed up'
    swOverlap,   \* the runs that were in flight when it started
    \* signature parsing
    parsed,      \* the last call of a parser: its arguments and what it returned
    inline,      \* what sendTransaction's own parsing made of the same signature
    \* submitWithRetry
    srPc,        \* position of the submitWithRetry call
    srMax,       \* its maxRetries
    srI,         \* its loop counter i
    srBlockhash, \* tx.blockhash of the transaction passed in
    srHead,      \* the latest blockhash of the chain
    srLog,       \* the sendTransaction calls made: blockhash sent and outcome
    srThrown,    \* the message of the error the call threw
    srResult,    \* the sendTransaction call whose result the call returned
    \* resubmission to the endpoint
    epPool,      \* the nonces of the sender's transactions in the endpoint's pool
    epExecuted,  \* the number of the sender's transactions executed
    epAdmitted,  \* per nonce, how often the endpoint took a transaction into its pool
    epReceipts,  \* the nonces of the receipts issued, in order
    rsPc,        \* per signed transaction, where its submission stands
    rsSends,     \* per signed transaction, how often it was posted
    \* set-avatar.js
    avPc,        \* position of main()
    avTx,        \* the setAvatar transaction on the chain
    avClock,     \* time, in ticks
    avWaitStart, \* the time at which tx.wait() was called
    avLog,       \* the lines written to the console
    \* the record of transaction attempts
    auditLog,    \* the records submitWithRetry and sendTransaction have written
    \* the tracker and NonceManager side by side, one sender, one chain
    eqTracker,   \* lastNonceRef.current[chainId]
    eqManager,   \* nonces.get(address)
    eqOut,       \* the nonces the two returned to the last call
    eqIn,        \* the last-used value before the last call and the network's answer to it
    eqSteps,     \* the calls made
    \* MegaETHStream
    ws,                 \* this.ws: the WebSocket created last, by number
    wsState,            \* of each WebSocket: what its events have made of it
    keepaliveInterval,  \* this.keepaliveInterval: the handle assigned last
    timers,             \* of each interval timer, named by the socket whose open set it
    reconnects,         \* the pending setTimeout(() => this.connect(), 1000)
    sent,               \* of each WebSocket: the requests send() was called with
    subscribers,        \* this.subscribers
    regs,               \* the subscribe() calls made: callback, and whether the returned function was called
    lastMessage,        \* the last message event: its method and the callbacks invoked
    msgCount,           \* message events handled
    \* handleTxError
    txError,            \* the last call: error.message, as words, and what was returned
    \* chunkData
    chData,             \* data
    chChunks,           \* chunks
    chI,                \* i
    chPc                \* where the call is

nmVars == <<nonces, locks, resolved, pc, addr, waitOn, net, last, result, hist, epoch>>

trVars == <<lastNonceRef, tPc, tAddr, tChain, tNet, tResult, tHist>>

sendVars == <<hookLast, txPc, txNet, txNonce, txAfter, accepted, txPosts, txResponse, txThrown>>

hwVars == <<isWarmedUp, hwPc, hwSigns, hwOverlap>>

swVars == <<swPc, swSigns, swFailed, swLogged, swOverlap>>

sigVars == <<parsed, inline>>

srVars == <<srPc, srMax, srI, srBlockhash, srHead, srLog, srThrown, srResult>>

rsVars == <<epPool, epExecuted, epAdmitted, epReceipts, rsPc, rsSends>>

avVars == <<avPc, avTx, avClock, avWaitStart, avLog>>

logVars == <<auditLog>>

eqVars == <<eqTracker, eqManager, eqOut, eqIn, eqSteps>>

teVars == <<txError>>

chVars == <<chData, chChunks, chI, chPc>>

stVars == <<ws, wsState, keepaliveInterval, timers, reconnects, sent, subscribers, regs, lastMessage, msgCount>>

vars == <<nmVars, trVars, sendVars, hwVars, swVars, sigVars, srVars, rsVars, avVars, logVars, eqVars, stVars, teVars, chVars>>

\* what each component leaves alone
nmOthers == <<trVars, sendVars, hwVars, swVars, sigVars, srVars, rsVars, avVars, logVars, eqVars, stVars, teVars, chVars>>
trOthers == <<nmVars, sendVars, hwVars, swVars, sigVars, srVars, rsVars, avVars, logVars, eqVars, stVars, teVars, chVars>>
sendOthers == <<nmVars, trVars, hwVars, swVars, sigVars, srVars, rsVars, avVars, logVars, eqVars, stVars, teVars, chVars>>
hwOthers == <<nmVars, trVars, sendVars, swVars, sigVars, srVars, rsVars, avVars, logVars, eqVars, stVars, teVars, chVars>>
swOthers == <<nmVars, trVars, sendVars, hwVars, sigVars, srVars, rsVars, avVars, logVars, eqVars, stVars, teVars, chVars>>
sigOthers == <<nmVars, trVars, sendVars, hwVars, swVars, srVars, rsVars, avVars, logVars, eqVars, stVars, teVars, chVars>>
srOthers == <<nmVars, trVars, sendVars, hwVars, swVars, sigVars, rsVars, avVars, logVars, eqVars, stVars, teVars, chVars>>
rsOthers == <<nmVars, trVars, sendVars, hwVars, swVars, sigVars, srVars, avVars, logVars, eqVars, stVars, teVars, chVars>>
avOthers == <<nmVars, trVars, sendVars, hwVars, swVars, sigVars, srVars, rsVars, logVars, eqVars, stVars, teVars, chVars>>
eqOthers == <<nmVars, trVars, sendVars, hwVars, swVars, sigVars, srVars, rsVars, avVars, logVars, stVars, teVars, chVars>>
stOthers == <<nmVars, trVars, sendVars, hwVars, swVars, sigVars, srVars, rsVars, avVars, logVars, eqVars, teVars, chVars>>
teOthers == <<nmVars, trVars, sendVars, hwVars, swVars, sigVars, srVars, rsVars, avVars, logVars, eqVars, stVars, chVars>>
chOthers == <<nmVars, trVars, sendVars, hwVars, swVars, sigVars, srVars, rsVars, avVars, logVars, eqVars, stVars, teVars>>

\* ------------------------------------------------------------ NonceManager
Max(a, b) == IF a >= b THEN a ELSE b

\* this.nonces.get(address) ?? -1
LastUsed(a) == IF nonces[a] = None THEN -1 ELSE nonces[a]

\* Mutant: the last-used nonce itself competes with the network count.
NextNonceNoIncrement(networkNonce, lastUsed) == Max(networkNonce, lastUsed)

\* Mutant: the network count is taken as it comes.
NextNonceNetworkWins(networkNonce, lastUsed) == networkNonce

\* Math.max(networkNonce, lastUsed + 1)
NextNonce(networkNonce, lastUsed) == Max(networkNonce, lastUsed + 1)

\* Mutant: the nonce returned is not stored.
NoncesSetDropped(a, nonce) == nonces

\* this.nonces.set(address, nonce)
NoncesSet(a, nonce) == [nonces EXCEPT ![a] = nonce]

\* Mutant: the whole lock map is cleared.
LocksDeleteAll(a) == [b \in Addresses |-> None]

\* Mutant: the lock entry is left in the map.
LocksDeleteSkipped(a) == locks

\* this.locks.delete(address)
LocksDelete(a) == [locks EXCEPT ![a] = None]

\* Mutant: the lock promise is dropped without being resolved.
FinallyNoResolve(c) ==
    /\ resolved' = resolved
    /\ locks' = LocksDelete(addr[c])

\* the finally block: resolve!(); this.locks.delete(address)
Finally(c) ==
    /\ resolved' = resolved \cup {c}
    /\ locks' = LocksDelete(addr[c])

\* locks.set(address, new Promise(...)) and the call of getTransactionCount
Enter(c, a) ==
    /\ locks' = [locks EXCEPT ![a] = c]
    /\ pc' = [pc EXCEPT ![c] = "querying"]

InitNM ==
    /\ nonces = [a \in Addresses |-> None]
    /\ locks = [a \in Addresses |-> None]
    /\ resolved = {}
    /\ pc = [c \in Calls |-> "idle"]
    /\ addr = [c \in Calls |-> None]
    /\ waitOn = [c \in Calls |-> None]
    /\ net = [c \in Calls |-> None]
    /\ last = [c \in Calls |-> None]
    /\ result = [c \in Calls |-> None]
    /\ hist = [a \in Addresses |-> <<>>]
    /\ epoch = [a \in Addresses |-> 0]

\* getNextNonce(client, address) up to its first await. Calls are numbered in
\* the order they are made and addresses in the order they are first used.
NMCall(c, a) ==
    /\ pc[c] = "idle"
    /\ \A d \in Calls : d < c => pc[d] # "idle"
    /\ \A b \in Addresses : b < a => \E d \in Calls : addr[d] = b
    /\ addr' = [addr EXCEPT ![c] = a]
    /\ IF locks[a] # None
          THEN /\ waitOn' = [waitOn EXCEPT ![c] = locks[a]]
               /\ pc' = [pc EXCEPT ![c] = "waiting"]
               /\ UNCHANGED locks
          ELSE /\ Enter(c, a)
               /\ UNCHANGED waitOn
    /\ UNCHANGED <<nonces, resolved, net, last, result, hist, epoch>>
    /\ UNCHANGED nmOthers

\* `await existing` returns: the promise awaited has been resolved.
NMResume(c) ==
    /\ pc[c] = "waiting"
    /\ waitOn[c] \in resolved
    /\ Enter(c, addr[c])
    /\ UNCHANGED <<nonces, resolved, addr, waitOn, net, last, result, hist, epoch>>
    /\ UNCHANGED nmOthers

\* getTransactionCount answers n: the try block, then the finally block.
NMQueryOk(c, n) ==
    /\ pc[c] = "querying"
    /\ net' = [net EXCEPT ![c] = n]
    /\ last' = [last EXCEPT ![c] = LastUsed(addr[c])]
    /\ result' = [result EXCEPT ![c] = NextNonce(n, LastUsed(addr[c]))]
    /\ nonces' = NoncesSet(addr[c], NextNonce(n, LastUsed(addr[c])))
    /\ hist' = [hist EXCEPT ![addr[c]] = Append(@, c)]
    /\ Finally(c)
    /\ pc' = [pc EXCEPT ![c] = "done"]
    /\ UNCHANGED <<addr, waitOn, epoch>>
    /\ UNCHANGED nmOthers

\* Mutant: a catch block answers a failed query with last-used + 1.
NMQueryFailFallback(c) ==
    /\ pc[c] = "querying"
    /\ net' = [net EXCEPT ![c] = NetError]
    /\ last' = [last EXCEPT ![c] = LastUsed(addr[c])]
    /\ result' = [result EXCEPT ![c] = LastUsed(addr[c]) + 1]
    /\ nonces' = NoncesSet(addr[c], LastUsed(addr[c]) + 1)
    /\ Finally(c)
    /\ pc' = [pc EXCEPT ![c] = "done"]
    /\ UNCHANGED <<addr, waitOn, hist, epoch>>
    /\ UNCHANGED nmOthers

\* Mutant: the error leaves the function without a finally block.
NMQueryFailKeepsLock(c) ==
    /\ pc[c] = "querying"
    /\ net' = [net EXCEPT ![c] = NetError]
    /\ pc' = [pc EXCEPT ![c] = "threw"]
    /\ UNCHANGED <<nonces, locks, resolved, addr, waitOn, last, result, hist, epoch>>
    /\ UNCHANGED nmOthers

\* getTransactionCount throws: the finally block runs and the error propagates.
NMQueryFail(c) ==
    /\ pc[c] = "querying"
    /\ net' = [net EXCEPT ![c] = NetError]
    /\ Finally(c)
    /\ pc' = [pc EXCEPT ![c] = "threw"]
    /\ UNCHANGED <<nonces, addr, waitOn, last, result, hist, epoch>>
    /\ UNCHANGED nmOthers

\* reset(address)
NMReset(a) ==
    /\ nonces' = [nonces EXCEPT ![a] = None]
    /\ epoch' = [epoch EXCEPT ![a] = Len(hist[a])]
    /\ UNCHANGED <<locks, resolved, pc, addr, waitOn, net, last, result, hist>>
    /\ UNCHANGED nmOthers

NMGetNextNonce ==
    \/ \E c \in Calls, a \in Addresses : NMCall(c, a)
    \/ \E c \in Calls : NMResume(c)
    \/ \E c \in Calls, n \in NetCounts : NMQueryOk(c, n)
    \/ \E c \in Calls : NMQueryFail(c)

\* ------------------------------------------- getNextNonce keyed by chain id
\* lastNonceRef.current[chainId] ?? -1
TrackerLastUsed(ch) == IF lastNonceRef[ch] = None THEN -1 ELSE lastNonceRef[ch]

TrackerNextStrict(nonce, lastUsed) == IF lastUsed > nonce THEN lastUsed + 1 ELSE nonce
\* if (lastUsed >= nonce) nonce = lastUsed + 1
TrackerNext(nonce, lastUsed) == IF lastUsed >= nonce THEN lastUsed + 1 ELSE nonce

InitTracker ==
    /\ lastNonceRef = [ch \in Chains |-> None]
    /\ tPc = [c \in Calls |-> "idle"]
    /\ tAddr = [c \in Calls |-> None]
    /\ tChain = [c \in Calls |-> None]
    /\ tNet = [c \in Calls |-> None]
    /\ tResult = [c \in Calls |-> None]
    /\ tHist = [ch \in Chains |-> <<>>]

\* getNextNonce(client, address, chainId) up to the await of
\* getTransactionCount. Calls, addresses and chains are numbered in the order
\* they are first used.
TrackerCall(c, a, ch) ==
    /\ tPc[c] = "idle"
    /\ \A d \in Calls : d < c => tPc[d] # "idle"
    /\ \A b \in Addresses : b < a => \E d \in Calls : tAddr[d] = b
    /\ \A k \in Chains : k < ch => \E d \in Calls : tChain[d] = k
    /\ tPc' = [tPc EXCEPT ![c] = "querying"]
    /\ tAddr' = [tAddr EXCEPT ![c] = a]
    /\ tChain' = [tChain EXCEPT ![c] = ch]
    /\ UNCHANGED <<lastNonceRef, tNet, tResult, tHist>>
    /\ UNCHANGED trOthers

\* getTransactionCount answers n: the rest of the function.
TrackerQueryOk(c, n) ==
    /\ tPc[c] = "querying"
    /\ tNet' = [tNet EXCEPT ![c] = n]
    /\ tResult' = [tResult EXCEPT ![c] = TrackerNext(n, TrackerLastUsed(tChain[c]))]
    /\ lastNonceRef' = [lastNonceRef EXCEPT
                           ![tChain[c]] = TrackerNext(n, TrackerLastUsed(tChain[c]))]
    /\ tHist' = [tHist EXCEPT ![tChain[c]] = Append(@, c)]
    /\ tPc' = [tPc EXCEPT ![c] = "done"]
    /\ UNCHANGED <<tAddr, tChain>>
    /\ UNCHANGED trOthers

\* getTransactionCount throws: the error propagates, nothing is stored.
TrackerQueryFail(c) ==
    /\ tPc[c] = "querying"
    /\ tNet' = [tNet EXCEPT ![c] = NetError]
    /\ tPc' = [tPc EXCEPT ![c] = "threw"]
    /\ UNCHANGED <<lastNonceRef, tAddr, tChain, tResult, tHist>>
    /\ UNCHANGED trOthers

\* -------------------------------------- useMegaETHTransaction.sendTransaction
\* if (lastNonceRef.current >= nonce) nonce = lastNonceRef.current + 1
HookNext(nonce, lastUsed) == IF lastUsed >= nonce THEN lastUsed + 1 ELSE nonce

\* getTransactionCount({ address, blockTag: 'pending' }) of the endpoint: the
\* number of transactions of the wallet executed so far.
PendingCount == Cardinality(accepted)

\* the rejections of the error table
Rejections == {"nonce too low", "insufficient funds", "intrinsic gas too low"}

InitSend ==
    /\ hookLast = -1
    /\ txPc = [t \in Txs |-> "idle"]
    /\ txNet = [t \in Txs |-> None]
    /\ txNonce = [t \in Txs |-> None]
    /\ txAfter = [t \in Txs |-> {}]
    /\ accepted = {}
    /\ txPosts = [t \in Txs |-> 0]
    /\ txResponse = [t \in Txs |-> "none"]
    /\ txThrown = [t \in Txs |-> "none"]

\* sendTransaction(to, value) with a Privy wallet, up to the await of
\* getEthereumProvider.
SendCall(t) ==
    /\ txPc[t] = "idle"
    /\ \A u \in Txs : u < t => txPc[u] # "idle"
    /\ txPc' = [txPc EXCEPT ![t] = "provider"]
    /\ UNCHANGED <<hookLast, txNet, txNonce, txAfter, accepted, txPosts, txResponse, txThrown>>
    /\ UNCHANGED sendOthers

\* sendTransaction(to, value) without a Privy wallet: throws at once.
SendNoWallet(t) ==
    /\ txPc[t] = "idle"
    /\ \A u \in Txs : u < t => txPc[u] # "idle"
    /\ txPc' = [txPc EXCEPT ![t] = "threw"]
    /\ txThrown' = [txThrown EXCEPT ![t] = "No Privy wallet"]
    /\ UNCHANGED <<hookLast, txNet, txNonce, txAfter, accepted, txPosts, txResponse>>
    /\ UNCHANGED sendOthers

\* the provider arrives: getTransactionCount is called.
SendProvider(t) ==
    /\ txPc[t] = "provider"
    /\ txPc' = [txPc EXCEPT ![t] = "nonce"]
    /\ UNCHANGED <<hookLast, txNet, txNonce, txAfter, accepted, txPosts, txResponse, txThrown>>
    /\ UNCHANGED sendOthers

\* the pending count arrives: the nonce is taken and stored, the transaction
\* built, serialized and hashed, and secp256k1_sign requested.
SendNonce(t) ==
    /\ txPc[t] = "nonce"
    /\ txNet' = [txNet EXCEPT ![t] = PendingCount]
    /\ txNonce' = [txNonce EXCEPT ![t] = HookNext(PendingCount, hookLast)]
    /\ hookLast' = HookNext(PendingCount, hookLast)
    /\ txAfter' = [txAfter EXCEPT ![t] = {u \in Txs : txPc[u] = "threw"}]
    /\ txPc' = [txPc EXCEPT ![t] = "signing"]
    /\ UNCHANGED <<accepted, txPosts, txResponse, txThrown>>
    /\ UNCHANGED sendOthers

\* the signature arrives: it is parsed and the signed transaction posted.
SendSigned(t) ==
    /\ txPc[t] = "signing"
    /\ txPc' = [txPc EXCEPT ![t] = "submitting"]
    /\ txPosts' = [txPosts EXCEPT ![t] = @ + 1]
    /\ UNCHANGED <<hookLast, txNet, txNonce, txAfter, accepted, txResponse, txThrown>>
    /\ UNCHANGED sendOthers

\* the endpoint executes the transaction and answers with its receipt: only
\* the transaction whose nonce is the wallet's pending count can execute.
SendAccepted(t) ==
    /\ txPc[t] = "submitting"
    /\ txNonce[t] = PendingCount
    /\ accepted' = accepted \cup {txNonce[t]}
    /\ txPc' = [txPc EXCEPT ![t] = "done"]
    /\ txResponse' = [txResponse EXCEPT ![t] = "receipt"]
    /\ UNCHANGED <<hookLast, txNet, txNonce, txAfter, txPosts, txThrown>>
    /\ UNCHANGED sendOthers

\* Mutant: the result of a response that carries an error is returned.
SendErrorReturns(t, message) ==
    /\ txPc[t] = "submitting"
    /\ txResponse' = [txResponse EXCEPT ![t] = message]
    /\ txPc' = [txPc EXCEPT ![t] = "done"]
    /\ UNCHANGED <<hookLast, txNet, txNonce, txAfter, accepted, txPosts, txThrown>>
    /\ UNCHANGED sendOthers

\* the response carries an error: throw new Error(error.message).
SendError(t, message) ==
    /\ txPc[t] = "submitting"
    /\ txResponse' = [txResponse EXCEPT ![t] = message]
    /\ txThrown' = [txThrown EXCEPT ![t] = message]
    /\ txPc' = [txPc EXCEPT ![t] = "threw"]
    /\ UNCHANGED <<hookLast, txNet, txNonce, txAfter, accepted, txPosts>>
    /\ UNCHANGED sendOthers

\* an awaited request rejects (provider, pending count, signature, fetch,
\* response.json): sendTransaction throws that rejection. Nothing is undone.
SendThrow(t) ==
    /\ txPc[t] \in {"provider", "nonce", "signing", "submitting"}
    /\ txPc' = [txPc EXCEPT ![t] = "threw"]
    /\ txThrown' = [txThrown EXCEPT ![t] = "rejected"]
    /\ UNCHANGED <<hookLast, txNet, txNonce, txAfter, accepted, txPosts, txResponse>>
    /\ UNCHANGED sendOthers

\* ------------------------------------ useMegaETHTransaction warmup effect
InitHookWarmup ==
    /\ isWarmedUp = FALSE
    /\ hwPc = [w \in Effects |-> "idle"]
    /\ hwSigns = [w \in Effects |-> 0]
    /\ hwOverlap = [w \in Effects |-> {}]

HWInFlight(w) == hwPc[w] \in {"provider", "rpc", "wait", "signing"}

\* the effect runs (mount, or `wallets` changed) and passes the guard
\* `if (!wallet || isWarmedUp.current) return`: getEthereumProvider is called.
HWEffect(w) ==
    /\ hwPc[w] = "idle"
    /\ \A v \in Effects : v < w => hwPc[v] # "idle"
    /\ ~isWarmedUp
    /\ hwPc' = [hwPc EXCEPT ![w] = "provider"]
    /\ hwOverlap' = [hwOverlap EXCEPT ![w] = {v \in Effects : HWInFlight(v)}]
    /\ UNCHANGED <<isWarmedUp, hwSigns>>
    /\ UNCHANGED hwOthers

\* the effect runs and returns at the guard: no Privy wallet (hasWallet
\* false), or already warmed up.
HWSkip(w, hasWallet) ==
    /\ hwPc[w] = "idle"
    /\ \A v \in Effects : v < w => hwPc[v] # "idle"
    /\ ~hasWallet \/ isWarmedUp
    /\ hwPc' = [hwPc EXCEPT ![w] = "skipped"]
    /\ UNCHANGED <<isWarmedUp, hwSigns, hwOverlap>>
    /\ UNCHANGED hwOthers

\* the provider arrives: client.getBlockNumber() is called.
HWProvider(w) ==
    /\ hwPc[w] = "provider"
    /\ hwPc' = [hwPc EXCEPT ![w] = "rpc"]
    /\ UNCHANGED <<isWarmedUp, hwSigns, hwOverlap>>
    /\ UNCHANGED hwOthers

\* the block number arrives: the 100 ms timer is set.
HWRpcOk(w) ==
    /\ hwPc[w] = "rpc"
    /\ hwPc' = [hwPc EXCEPT ![w] = "wait"]
    /\ UNCHANGED <<isWarmedUp, hwSigns, hwOverlap>>
    /\ UNCHANGED hwOthers

\* the timer fires: the dummy secp256k1_sign is requested.
HWRequestSign(w) ==
    /\ hwPc[w] = "wait"
    /\ hwPc' = [hwPc EXCEPT ![w] = "signing"]
    /\ hwSigns' = [hwSigns EXCEPT ![w] = @ + 1]
    /\ UNCHANGED <<isWarmedUp, hwOverlap>>
    /\ UNCHANGED hwOthers

\* the dummy signature arrives: isWarmedUp.current = true.
HWSignOk(w) ==
    /\ hwPc[w] = "signing"
    /\ isWarmedUp' = TRUE
    /\ hwPc' = [hwPc EXCEPT ![w] = "done"]
    /\ UNCHANGED <<hwSigns, hwOverlap>>
    /\ UNCHANGED hwOthers

\* Mutant: a failed warmup marks the session as not warmed up.
HWRejectResetsWarm(w) ==
    /\ hwPc[w] \in {"provider", "rpc", "signing"}
    /\ hwPc' = [hwPc EXCEPT ![w] = "rejected"]
    /\ isWarmedUp' = FALSE
    /\ UNCHANGED <<hwSigns, hwOverlap>>
    /\ UNCHANGED hwOthers

\* Mutant: a failed warmup still marks the session as warmed up.
HWRejectMarksWarm(w) ==
    /\ hwPc[w] \in {"provider", "rpc", "signing"}
    /\ hwPc' = [hwPc EXCEPT ![w] = "rejected"]
    /\ isWarmedUp' = TRUE
    /\ UNCHANGED <<hwSigns, hwOverlap>>
    /\ UNCHANGED hwOthers

\* getEthereumProvider, getBlockNumber or the dummy request rejects: the
\* promise chain rejects and nothing after the await runs.
HWReject(w) ==
    /\ hwPc[w] \in {"provider", "rpc", "signing"}
    /\ hwPc' = [hwPc EXCEPT ![w] = "rejected"]
    /\ UNCHANGED <<isWarmedUp, hwSigns, hwOverlap>>
    /\ UNCHANGED hwOthers

\* ---------------------------------------------------------- useSigningWarmup
InitSigningWarmup ==
    /\ swPc = [w \in Warmups |-> "idle"]
    /\ swSigns = [w \in Warmups |-> 0]
    /\ swFailed = [w \in Warmups |-> 0]
    /\ swLogged = [w \in Warmups |-> FALSE]
    /\ swOverlap = [w \in Warmups |-> {}]

SWInFlight(w) == swPc[w] \in {"provider", "init", "sign1", "backoff", "sign2"}

\* the effect runs with a Privy wallet: warmup() is called and awaits
\* getEthereumProvider.
SWEffect(w) ==
    /\ swPc[w] = "idle"
    /\ \A v \in Warmups : v < w => swPc[v] # "idle"
    /\ swPc' = [swPc EXCEPT ![w] = "provider"]
    /\ swOverlap' = [swOverlap EXCEPT ![w] = {v \in Warmups : SWInFlight(v)}]
    /\ UNCHANGED <<swSigns, swFailed, swLogged>>
    /\ UNCHANGED swOthers

\* the effect runs without a Privy wallet: it returns.
SWNoWallet(w) ==
    /\ swPc[w] = "idle"
    /\ \A v \in Warmups : v < w => swPc[v] # "idle"
    /\ swPc' = [swPc EXCEPT ![w] = "nowallet"]
    /\ UNCHANGED <<swSigns, swFailed, swLogged, swOverlap>>
    /\ UNCHANGED swOthers

\* the provider arrives: the 100 ms timer is set.
SWProvider(w) ==
    /\ swPc[w] = "provider"
    /\ swPc' = [swPc EXCEPT ![w] = "init"]
    /\ UNCHANGED <<swSigns, swFailed, swLogged, swOverlap>>
    /\ UNCHANGED swOthers

\* getEthereumProvider rejects: warmup() rejects.
SWProviderFail(w) ==
    /\ swPc[w] = "provider"
    /\ swPc' = [swPc EXCEPT ![w] = "rejected"]
    /\ UNCHANGED <<swSigns, swFailed, swLogged, swOverlap>>
    /\ UNCHANGED swOthers

\* the timer fires: the dummy secp256k1_sign of the try block is requested.
SWRequestSign(w) ==
    /\ swPc[w] = "init"
    /\ swPc' = [swPc EXCEPT ![w] = "sign1"]
    /\ swSigns' = [swSigns EXCEPT ![w] = @ + 1]
    /\ UNCHANGED <<swFailed, swLogged, swOverlap>>
    /\ UNCHANGED swOthers

\* the dummy signature arrives: the warmup is logged and warmup() resolves.
SWSignOk(w) ==
    /\ swPc[w] = "sign1"
    /\ swLogged' = [swLogged EXCEPT ![w] = TRUE]
    /\ swPc' = [swPc EXCEPT ![w] = "done"]
    /\ UNCHANGED <<swSigns, swFailed, swOverlap>>
    /\ UNCHANGED swOthers

\* the dummy request rejects: the catch block sets the 500 ms timer.
SWSignFail(w) ==
    /\ swPc[w] = "sign1"
    /\ swFailed' = [swFailed EXCEPT ![w] = @ + 1]
    /\ swPc' = [swPc EXCEPT ![w] = "backoff"]
    /\ UNCHANGED <<swSigns, swLogged, swOverlap>>
    /\ UNCHANGED swOthers

\* the 500 ms timer fires: the dummy secp256k1_sign is requested again.
SWRetrySign(w) ==
    /\ swPc[w] = "backoff"
    /\ swPc' = [swPc EXCEPT ![w] = "sign2"]
    /\ swSigns' = [swSigns EXCEPT ![w] = @ + 1]
    /\ UNCHANGED <<swFailed, swLogged, swOverlap>>
    /\ UNCHANGED swOthers

\* the retried signature arrives: warmup() resolves (nothing is logged).
SWRetryOk(w) ==
    /\ swPc[w] = "sign2"
    /\ swPc' = [swPc EXCEPT ![w] = "done"]
    /\ UNCHANGED <<swSigns, swFailed, swLogged, swOverlap>>
    /\ UNCHANGED swOthers

\* Mutant: the catch block retries again after every failure.
SWRetryFailAgain(w) ==
    /\ swPc[w] = "sign2"
    /\ swFailed' = [swFailed EXCEPT ![w] = @ + 1]
    /\ swPc' = [swPc EXCEPT ![w] = "backoff"]
    /\ UNCHANGED <<swSigns, swLogged, swOverlap>>
    /\ UNCHANGED swOthers

\* Mutant: the failure of the retry is caught and dropped.
SWRetryFailSwallowed(w) ==
    /\ swPc[w] = "sign2"
    /\ swFailed' = [swFailed EXCEPT ![w] = @ + 1]
    /\ swPc' = [swPc EXCEPT ![w] = "done"]
    /\ UNCHANGED <<swSigns, swLogged, swOverlap>>
    /\ UNCHANGED swOthers

\* the retried request rejects inside the catch block: warmup() rejects.
SWRetryFail(w) ==
    /\ swPc[w] = "sign2"
    /\ swFailed' = [swFailed EXCEPT ![w] = @ + 1]
    /\ swPc' = [swPc EXCEPT ![w] = "rejected"]
    /\ UNCHANGED <<swSigns, swLogged, swOverlap>>
    /\ UNCHANGED swOthers

\* ------------------------------------------------------ signature parsing
\* A signature is the string secp256k1_sign returns: '0x' and 130 hex
\* characters (r, s and the recovery byte), kept as a sequence of characters.
HexChars == <<"0", "1", "2", "3", "4", "5", "6", "7", "8", "9", "a", "b", "c", "d", "e", "f">>

HexVal(ch) == (CHOOSE i \in 1..Len(HexChars) : HexChars[i] = ch) - 1

\* String.prototype.slice(start, end) for 0 <= start <= end <= length
Slice(str, start, end) == SubSeq(str, start + 1, end)

\* parseInt(str, 16) of a non-empty string of hex characters
RECURSIVE ParseInt16(_)
ParseInt16(str) ==
    IF Len(str) = 1 THEN HexVal(str[1])
    ELSE 16 * ParseInt16(SubSeq(str, 1, Len(str) - 1)) + HexVal(str[Len(str)])

\* the two hex characters of one byte, as the signer writes them
ToHex2(n) == <<HexChars[(n \div 16) + 1], HexChars[(n % 16) + 1]>>

\* the 32-byte words the signatures are drawn from: first and last character vary
FillChars == {HexChars[i] : i \in 1..MaxFill}
Words == {[i \in 1..64 |-> IF i = 1 THEN a ELSE IF i = 64 THEN b ELSE "0"] : a, b \in FillChars}

\* the compact signature with words rw, sw and recovery byte raw
Signature(rw, sw, raw) == <<"0", "x">> \o rw \o sw \o ToHex2(raw)

\* Mutant: only values above 27 are reduced.
NormalizeRecoveryAbove(recoveryBit) == IF recoveryBit > 27 THEN recoveryBit - 27 ELSE recoveryBit

\* if (recoveryBit >= 27) recoveryBit -= 27;
NormalizeRecovery(recoveryBit) == IF recoveryBit >= 27 THEN recoveryBit - 27 ELSE recoveryBit

\* Mutant: the recovery bit is left out of v.
LegacyVNoParity(chainId, recoveryBit) == chainId * 2 + 35

\* v = BigInt(chainId) * 2n + 35n + BigInt(recoveryBit)
LegacyV(chainId, recoveryBit) == chainId * 2 + 35 + recoveryBit

parseSignature(signature, chainId) ==
    LET r == <<"0", "x">> \o Slice(signature, 2, 66)
        s == <<"0", "x">> \o Slice(signature, 66, 130)
        recoveryBit == NormalizeRecovery(ParseInt16(Slice(signature, 130, 132)))
    IN  [r |-> r, s |-> s, v |-> LegacyV(chainId, recoveryBit)]

parseSignatureEIP1559(signature) ==
    LET r == <<"0", "x">> \o Slice(signature, 2, 66)
        s == <<"0", "x">> \o Slice(signature, 66, 130)
        yParity == NormalizeRecovery(ParseInt16(Slice(signature, 130, 132)))
    IN  [r |-> r, s |-> s, yParity |-> yParity]

\* Mutant: the recovery byte goes into v as it came.
sendTransactionParseRaw(sig) ==
    LET r == <<"0", "x">> \o Slice(sig, 2, 66)
        s == <<"0", "x">> \o Slice(sig, 66, 130)
        recoveryBit == ParseInt16(Slice(sig, 130, 132))
    IN  [r |-> r, s |-> s, v |-> CHAIN_ID * 2 + 35 + recoveryBit]

\* sendTransaction, `// Parse signature`: r, s and v of the signature just
\* received, for the chain CHAIN_ID
sendTransactionParse(sig) ==
    LET r == <<"0", "x">> \o Slice(sig, 2, 66)
        s == <<"0", "x">> \o Slice(sig, 66, 130)
        parsedByte == ParseInt16(Slice(sig, 130, 132))
        recoveryBit == IF parsedByte >= 27 THEN parsedByte - 27 ELSE parsedByte
    IN  [r |-> r, s |-> s, v |-> CHAIN_ID * 2 + 35 + recoveryBit]

NotParsed == [r |-> <<>>, s |-> <<>>, v |-> None]

InitSig ==
    /\ parsed = [fn |-> "none", signature |-> <<>>, chainId |-> None, raw |-> None,
                 r |-> <<>>, s |-> <<>>, v |-> None, yParity |-> None]
    /\ inline = NotParsed

\* The arguments of a parser call: any signature, with recovery byte raw,
\* and any chain id.
InitSigArgs ==
    /\ \E rw, sw \in Words, raw \in RecoveryBytes, chainId \in ChainIds :
        parsed = [fn |-> "args", signature |-> Signature(rw, sw, raw), chainId |-> chainId,
                  raw |-> raw, r |-> <<>>, s |-> <<>>, v |-> None, yParity |-> None]
    /\ inline = NotParsed

\* parseSignature(signature, chainId)
ParseLegacy ==
    /\ parsed.fn = "args"
    /\ LET out == parseSignature(parsed.signature, parsed.chainId)
       IN  parsed' = [parsed EXCEPT !.fn = "parseSignature",
                                    !.r = out.r, !.s = out.s, !.v = out.v]
    /\ UNCHANGED inline
    /\ UNCHANGED sigOthers

\* parseSignatureEIP1559(signature)
ParseEIP1559 ==
    /\ parsed.fn = "args"
    /\ LET out == parseSignatureEIP1559(parsed.signature)
       IN  parsed' = [parsed EXCEPT !.fn = "parseSignatureEIP1559",
                                    !.r = out.r, !.s = out.s, !.yParity = out.yParity]
    /\ UNCHANGED inline
    /\ UNCHANGED sigOthers

\* sendTransaction parses the same signature
ParseInline ==
    /\ parsed.fn # "none"
    /\ inline = NotParsed
    /\ inline' = sendTransactionParse(parsed.signature)
    /\ UNCHANGED parsed
    /\ UNCHANGED sigOthers

\* -------------------------------------------------------- submitWithRetry
\* maxRetries = 3
DefaultMaxRetries == 3

\* the messages of the errors getLatestBlockhash and sendTransaction reject with
ErrorMessages ==
    {"blockhash not found", "nonce too low", "insufficient funds", "intrinsic gas too low",
     "fetch failed"}

\* e.message.includes('blockhash')
IncludesBlockhash(message) == message = "blockhash not found"

InitRetry ==
    /\ srPc = "idle"
    /\ srMax = None
    /\ srI = 0
    /\ srBlockhash = None
    /\ srHead = 0
    /\ srLog = <<>>
    /\ srThrown = "none"
    /\ srResult = None

\* Mutant: the loop runs while i <= maxRetries.
LoopTestInclusive(i, maxRetries) == i <= maxRetries

\* i < maxRetries
LoopTest(i, maxRetries) == i < maxRetries

\* The loop test with counter i: the body starts with getLatestBlockhash(),
\* and after the loop the call throws 'Transaction expired'.
LoopFrom(i, maxRetries) ==
    /\ srI' = i
    /\ IF LoopTest(i, maxRetries)
       THEN srPc' = "blockhash" /\ srThrown' = srThrown
       ELSE srPc' = "threw" /\ srThrown' = "Transaction expired"

\* Mutant: every error ends the iteration and the loop goes on.
CatchRetriesAll(message) == LoopFrom(srI + 1, srMax)

\* catch (e): an error without 'blockhash' in its message is thrown on,
\* any other ends the iteration.
Catch(message) ==
    IF IncludesBlockhash(message)
    THEN LoopFrom(srI + 1, srMax)
    ELSE srPc' = "threw" /\ srThrown' = message /\ srI' = srI

\* submitWithRetry(tx, maxRetries)
SRCall(maxRetries) ==
    /\ srPc = "idle"
    /\ srMax' = maxRetries
    /\ LoopFrom(0, maxRetries)
    /\ UNCHANGED <<srBlockhash, srHead, srLog, srResult>>
    /\ UNCHANGED srOthers

\* submitWithRetry(tx)
SRCallDefault ==
    /\ srPc = "idle"
    /\ srMax' = DefaultMaxRetries
    /\ LoopFrom(0, DefaultMaxRetries)
    /\ UNCHANGED <<srBlockhash, srHead, srLog, srResult>>
    /\ UNCHANGED srOthers

\* getLatestBlockhash resolves: tx.blockhash is set, sendTransaction(tx) called
SRBlockhashOk ==
    /\ srPc = "blockhash"
    /\ srBlockhash' = srHead
    /\ srLog' = Append(srLog, [blockhash |-> srHead, outcome |-> "pending"])
    /\ srPc' = "sending"
    /\ UNCHANGED <<srMax, srI, srHead, srThrown, srResult>>
    /\ UNCHANGED srOthers

\* getLatestBlockhash rejects
SRBlockhashFail(message) ==
    /\ srPc = "blockhash"
    /\ Catch(message)
    /\ UNCHANGED <<srMax, srBlockhash, srHead, srLog, srResult>>
    /\ UNCHANGED srOthers

\* Mutant: the result is kept and the loop goes on.
SRSendOkContinues ==
    /\ srPc = "sending"
    /\ srLog' = [srLog EXCEPT ![Len(srLog)].outcome = "accepted"]
    /\ LoopFrom(srI + 1, srMax)
    /\ srResult' = Len(srLog)
    /\ UNCHANGED <<srMax, srBlockhash, srHead>>
    /\ UNCHANGED srOthers

\* sendTransaction resolves: its result is returned
SRSendOk ==
    /\ srPc = "sending"
    /\ srLog' = [srLog EXCEPT ![Len(srLog)].outcome = "accepted"]
    /\ srPc' = "returned"
    /\ srResult' = Len(srLog)
    /\ UNCHANGED <<srMax, srI, srBlockhash, srHead, srThrown>>
    /\ UNCHANGED srOthers

\* sendTransaction rejects
SRSendFail(message) ==
    /\ srPc = "sending"
    /\ srLog' = [srLog EXCEPT ![Len(srLog)].outcome = message]
    /\ Catch(message)
    /\ UNCHANGED <<srMax, srBlockhash, srHead, srResult>>
    /\ UNCHANGED srOthers

\* the chain produces a block
SRNewBlock ==
    /\ srHead < MaxHead
    /\ srHead' = srHead + 1
    /\ UNCHANGED <<srPc, srMax, srI, srBlockhash, srLog, srThrown, srResult>>
    /\ UNCHANGED srOthers

\* ------------------------------------------- resubmission to the endpoint
\* The sender has signed transactions with nonces 0, 1, ...; each is posted
\* with realtime_sendRawTransaction and posted again, byte for byte, after a
\* transport failure.
InitResend ==
    /\ epPool = {}
    /\ epExecuted = 0
    /\ epAdmitted = [n \in Signed |-> 0]
    /\ epReceipts = <<>>
    /\ rsPc = [n \in Signed |-> "unsent"]
    /\ rsSends = [n \in Signed |-> 0]

\* Mutant: the endpoint only remembers the transactions in its pool.
EndpointAnswerForgetsExecuted(n) ==
    IF n \in epPool THEN "already known" ELSE "admitted"

\* What the endpoint answers to the transaction with nonce n: already
\* executed, still in pool, or new.
EndpointAnswer(n) ==
    IF n < epExecuted THEN "nonce too low"
    ELSE IF n \in epPool THEN "already known"
    ELSE "admitted"

\* the signed transaction is posted, for the first time or after a failure
RSPost(n) ==
    /\ rsPc[n] \in {"unsent", "failed"}
    /\ rsSends[n] < MaxSends
    /\ rsPc' = [rsPc EXCEPT ![n] = "posted"]
    /\ rsSends' = [rsSends EXCEPT ![n] = @ + 1]
    /\ UNCHANGED <<epPool, epExecuted, epAdmitted, epReceipts>>
    /\ UNCHANGED rsOthers

\* the request never reaches the endpoint: fetch rejects
RSRequestLost(n) ==
    /\ rsPc[n] = "posted"
    /\ rsPc' = [rsPc EXCEPT ![n] = "failed"]
    /\ UNCHANGED <<epPool, epExecuted, epAdmitted, epReceipts, rsSends>>
    /\ UNCHANGED rsOthers

\* the request reaches the endpoint: a duplicate is answered with an error,
\* a new transaction enters the pool and the response waits for its receipt
RSArrive(n) ==
    /\ rsPc[n] = "posted"
    /\ IF EndpointAnswer(n) = "admitted"
       THEN /\ epPool' = epPool \cup {n}
            /\ epAdmitted' = [epAdmitted EXCEPT ![n] = @ + 1]
            /\ rsPc' = [rsPc EXCEPT ![n] = "held"]
       ELSE /\ rsPc' = [rsPc EXCEPT ![n] = EndpointAnswer(n)]
            /\ UNCHANGED <<epPool, epAdmitted>>
    /\ UNCHANGED <<epExecuted, epReceipts, rsSends>>
    /\ UNCHANGED rsOthers

\* the connection of a waiting request breaks: fetch rejects, the
\* transaction stays in the pool
RSResponseLost(n) ==
    /\ rsPc[n] = "held"
    /\ rsPc' = [rsPc EXCEPT ![n] = "failed"]
    /\ UNCHANGED <<epPool, epExecuted, epAdmitted, epReceipts, rsSends>>
    /\ UNCHANGED rsOthers

\* the endpoint executes the pooled transaction whose nonce is the
\* sender's next and issues its receipt; a request still waiting gets it
RSExecute(n) ==
    /\ n \in epPool
    /\ n = epExecuted
    /\ epPool' = epPool \ {n}
    /\ epExecuted' = epExecuted + 1
    /\ epReceipts' = Append(epReceipts, n)
    /\ rsPc' = [rsPc EXCEPT ![n] = IF @ = "held" THEN "receipt" ELSE @]
    /\ UNCHANGED <<epAdmitted, rsSends>>
    /\ UNCHANGED rsOthers

\* ------------------------------------------------- the record of attempts
\* Neither submitWithRetry nor sendTransaction has a statement that writes
\* a record of an attempt: the log starts empty and no action appends to it.
InitAudit == auditLog = <<>>

\* ------------------------------- tracker and NonceManager, side by side
\* `?? -1` of a value that may be absent
OrMinusOne(x) == IF x = None THEN -1 ELSE x

InitEq ==
    /\ eqTracker = None
    /\ eqManager = None
    /\ eqOut = <<None, None>>
    /\ eqIn = <<None, None>>
    /\ eqSteps = 0

\* Both have been in use and hold the same last-used value, or none.
InitEqSeeded ==
    /\ \E seed \in {None} \cup (0..MaxEqSeed) : eqTracker = seed /\ eqManager = seed
    /\ eqOut = <<None, None>>
    /\ eqIn = <<None, None>>
    /\ eqSteps = 0

\* One getNextNonce call on each, with no other call in flight; the
\* network answers both with the pending count n.
EqCall(n) ==
    /\ eqSteps < MaxEqSteps
    /\ eqTracker' = TrackerNext(n, OrMinusOne(eqTracker))
    /\ eqManager' = NextNonce(n, OrMinusOne(eqManager))
    /\ eqOut' = <<TrackerNext(n, OrMinusOne(eqTracker)), NextNonce(n, OrMinusOne(eqManager))>>
    /\ eqIn' = <<OrMinusOne(eqTracker), n>>
    /\ eqSteps' = eqSteps + 1
    /\ UNCHANGED eqOthers

\* ---------------------------------------------------------- MegaETHStream
Sockets == 1..MaxSockets
Callbacks == 1..NumCallbacks
\* parsed.method of a message: a notification, or a response (no method)
Methods == {"eth_subscription", "undefined"}

\* the WebSockets created so far
Created == {k \in Sockets : wsState[k] # "none"}

InitStream ==
    /\ ws = None
    /\ wsState = [k \in Sockets |-> "none"]
    /\ keepaliveInterval = None
    /\ timers = [k \in Sockets |-> "none"]
    /\ reconnects = 0
    /\ sent = [k \in Sockets |-> <<>>]
    /\ subscribers = {}
    /\ regs = <<>>
    /\ lastMessage = [method |-> "none", invoked |-> [c \in Callbacks |-> 0]]
    /\ msgCount = 0

\* this.ws = new WebSocket(...)
NewSocket ==
    LET k == Cardinality(Created) + 1
    IN  /\ k \in Sockets
        /\ ws' = k
        /\ wsState' = [wsState EXCEPT ![k] = "connecting"]

\* this.ws!.send(request), with the state of the socket it is sent on
SendOn(log, state, request) ==
    [log EXCEPT ![ws] = Append(@, [request |-> request, readyState |-> state[ws]])]

\* connect(), called by the user of the stream, once
StreamConnect ==
    /\ ws = None
    /\ NewSocket
    /\ UNCHANGED <<keepaliveInterval, timers, reconnects, sent, subscribers, regs, lastMessage, msgCount>>
    /\ UNCHANGED stOthers

\* 'open' of socket k: the miniBlocks subscription is sent and the
\* keepalive interval set.
StreamOpen(k) ==
    /\ wsState[k] = "connecting"
    /\ wsState' = [wsState EXCEPT ![k] = "open"]
    /\ sent' = SendOn(sent, wsState', "eth_subscribe")
    /\ timers' = [timers EXCEPT ![k] = "active"]
    /\ keepaliveInterval' = k
    /\ UNCHANGED <<ws, reconnects, subscribers, regs, lastMessage, msgCount>>
    /\ UNCHANGED stOthers

\* the interval timer t fires: eth_chainId is sent on this.ws
StreamKeepalive(t) ==
    /\ timers[t] = "active"
    /\ Len(sent[ws]) < MaxSent
    /\ sent' = SendOn(sent, wsState, "eth_chainId")
    /\ UNCHANGED <<ws, wsState, keepaliveInterval, timers, reconnects, subscribers, regs, lastMessage, msgCount>>
    /\ UNCHANGED stOthers

\* Mutant: the close handler sets no reconnect timer.
StreamCloseNoReconnect(k) ==
    /\ wsState[k] \in {"connecting", "open"}
    /\ wsState' = [wsState EXCEPT ![k] = "closed"]
    /\ timers' = IF keepaliveInterval # None /\ timers[keepaliveInterval] = "active"
                  THEN [timers EXCEPT ![keepaliveInterval] = "cleared"]
                  ELSE timers
    /\ UNCHANGED <<ws, keepaliveInterval, reconnects, sent, subscribers, regs, lastMessage, msgCount>>
    /\ UNCHANGED stOthers

\* Mutant: the close handler leaves the interval running.
StreamCloseKeepsTimer(k) ==
    /\ wsState[k] \in {"connecting", "open"}
    /\ wsState' = [wsState EXCEPT ![k] = "closed"]
    /\ reconnects' = reconnects + 1
    /\ UNCHANGED <<ws, keepaliveInterval, timers, sent, subscribers, regs, lastMessage, msgCount>>
    /\ UNCHANGED stOthers

\* 'close' of socket k: the interval is cleared and the reconnect set.
StreamClose(k) ==
    /\ wsState[k] \in {"connecting", "open"}
    /\ wsState' = [wsState EXCEPT ![k] = "closed"]
    /\ timers' = IF keepaliveInterval # None /\ timers[keepaliveInterval] = "active"
                  THEN [timers EXCEPT ![keepaliveInterval] = "cleared"]
                  ELSE timers
    /\ reconnects' = reconnects + 1
    /\ UNCHANGED <<ws, keepaliveInterval, sent, subscribers, regs, lastMessage, msgCount>>
    /\ UNCHANGED stOthers

\* the reconnect timer fires after 1000 ms: connect()
StreamReconnect ==
    /\ reconnects > 0
    /\ reconnects' = reconnects - 1
    /\ NewSocket
    /\ UNCHANGED <<keepaliveInterval, timers, sent, subscribers, regs, lastMessage, msgCount>>
    /\ UNCHANGED stOthers

\* 'message' of socket k: a notification goes to every subscriber.
StreamMessage(k, method) ==
    /\ wsState[k] = "open"
    /\ msgCount < MaxMessages
    /\ msgCount' = msgCount + 1
    /\ lastMessage' = [method |-> method,
                        invoked |-> [c \in Callbacks |->
                            IF method = "eth_subscription" /\ c \in subscribers THEN 1 ELSE 0]]
    /\ UNCHANGED <<ws, wsState, keepaliveInterval, timers, reconnects, sent, subscribers, regs>>
    /\ UNCHANGED stOthers

\* subscribe(callback)
StreamSubscribe(callback) ==
    /\ Len(regs) < MaxSubscribeCalls
    /\ subscribers' = subscribers \cup {callback}
    /\ regs' = Append(regs, [callback |-> callback, unsubscribed |-> FALSE])
    /\ UNCHANGED <<ws, wsState, keepaliveInterval, timers, reconnects, sent, lastMessage, msgCount>>
    /\ UNCHANGED stOthers

\* the function subscribe() call number r returned is called
StreamUnsubscribe(r) ==
    /\ r \in 1..Len(regs)
    /\ subscribers' = subscribers \ {regs[r].callback}
    /\ regs' = [regs EXCEPT ![r].unsubscribed = TRUE]
    /\ UNCHANGED <<ws, wsState, keepaliveInterval, timers, reconnects, sent, lastMessage, msgCount>>
    /\ UNCHANGED stOthers

\* ---------------------------------------------------------- handleTxError
\* A message is kept as the sequence of its words; the patterns are
\* phrases, and a message includes a pattern when the pattern's words occur
\* in it one after the other.
TX_ERRORS == <<
    [pattern |-> <<"nonce", "too", "low">>,            message |-> "Transaction already executed"],
    [pattern |-> <<"already", "known">>,               message |-> "Transaction pending"],
    [pattern |-> <<"intrinsic", "gas", "too", "low">>, message |-> "Increase gas limit"],
    [pattern |-> <<"insufficient", "funds">>,          message |-> "Not enough ETH for gas"] >>

\* String.prototype.includes
Includes(str, pattern) ==
    \E start \in 0..(Len(str) - Len(pattern)) :
        SubSeq(str, start + 1, start + Len(pattern)) = pattern

\* Mutant: the last matching entry of the table wins.
RECURSIVE handleTxErrorLast(_, _)
handleTxErrorLast(message, i) ==
    IF i > Len(TX_ERRORS) THEN "Transaction failed"
    ELSE LET rest == handleTxErrorLast(message, i + 1)
         IN  IF rest = "Transaction failed" /\ Includes(message, TX_ERRORS[i].pattern)
             THEN TX_ERRORS[i].message ELSE rest

\* the for loop over Object.entries(TX_ERRORS), from entry i on, and the
\* return after it
RECURSIVE handleTxErrorFrom(_, _)
handleTxErrorFrom(message, i) ==
    IF i > Len(TX_ERRORS) THEN "Transaction failed"
    ELSE IF Includes(message, TX_ERRORS[i].pattern) THEN TX_ERRORS[i].message
    ELSE handleTxErrorFrom(message, i + 1)

handleTxError(message) == handleTxErrorFrom(message, 1)

\* the phrases the error messages are put together from: the patterns,
\* pieces of them, a pattern in other case, and other text
Phrases ==
    {TX_ERRORS[i].pattern : i \in 1..Len(TX_ERRORS)}
        \cup {<<"nonce">>, <<"too", "low">>, <<"Already", "Known">>, <<"execution", "reverted">>}

RECURSIVE Messages(_)
Messages(n) ==
    IF n = 0 THEN {<<>>}
    ELSE Messages(n - 1) \cup {m \o p : m \in Messages(n - 1), p \in Phrases}

InitTxError ==
    txError = [fn |-> "none", message |-> <<>>, returned |-> "none"]

\* handleTxError is about to be called on an error with any message
InitTxErrorArgs ==
    \E message \in Messages(MaxParts) :
        txError = [fn |-> "args", message |-> message, returned |-> "none"]

\* handleTxError(error)
HandleTxError ==
    /\ txError.fn = "args"
    /\ txError' = [txError EXCEPT !.fn = "handleTxError",
                                   !.returned = handleTxError(txError.message)]
    /\ UNCHANGED teOthers

\* -------------------------------------------------------------- chunkData
\* const CHUNK_SIZE = 15000
CHUNK_SIZE == 15000

Min(a, b) == IF a <= b THEN a ELSE b

\* data.slice(start, end) for 0 <= start <= length: end is cut at the length
DataSlice(data, start, end) == SubSeq(data, start + 1, Min(end, Len(data)))

\* the lengths of the inputs: around the multiples of CHUNK_SIZE
Lengths ==
    {n \in {whole * CHUNK_SIZE + off : whole \in 0..MaxWhole, off \in (0 - MaxOff)..MaxOff} : n >= 0}

InitChunk ==
    /\ chData = <<>>
    /\ chChunks = <<>>
    /\ chI = 0
    /\ chPc = "none"

\* chunkData is called on data of one of the lengths; the element at each
\* position is its own, so that any loss, repetition or reordering shows.
InitChunkArgs ==
    /\ \E n \in Lengths : chData = [j \in 1..n |-> j]
    /\ chChunks = <<>>
    /\ chI = 0
    /\ chPc = "loop"

\* Mutant: the slice stops one element early.
ChunkPushShort ==
    /\ chPc = "loop"
    /\ chI < Len(chData)
    /\ chChunks' = Append(chChunks, DataSlice(chData, chI, chI + CHUNK_SIZE - 1))
    /\ chI' = chI + CHUNK_SIZE
    /\ UNCHANGED <<chData, chPc>>
    /\ UNCHANGED chOthers

\* one pass of the loop: chunks.push(data.slice(i, i + CHUNK_SIZE)); i += CHUNK_SIZE
ChunkPush ==
    /\ chPc = "loop"
    /\ chI < Len(chData)
    /\ chChunks' = Append(chChunks, DataSlice(chData, chI, chI + CHUNK_SIZE))
    /\ chI' = chI + CHUNK_SIZE
    /\ UNCHANGED <<chData, chPc>>
    /\ UNCHANGED chOthers

\* the loop test fails: return chunks
ChunkReturn ==
    /\ chPc = "loop"
    /\ ~(chI < Len(chData))
    /\ chPc' = "done"
    /\ UNCHANGED <<chData, chChunks, chI>>
    /\ UNCHANGED chOthers

\* ---------------------------------------------------------- set-avatar.js
InitAvatar ==
    /\ avPc = "idle"
    /\ avTx = "none"
    /\ avClock = 0
    /\ avWaitStart = None
    /\ avLog = <<>>

\* main(): provider, wallet and contract are built and setAvatar is called
AvMain ==
    /\ avPc = "idle"
    /\ avPc' = "sending"
    /\ avLog' = avLog \o <<"Wallet:", "Setting avatar for Agent #1...">>
    /\ UNCHANGED <<avTx, avClock, avWaitStart>>
    /\ UNCHANGED avOthers

\* profile.setAvatar resolves with the transaction sent: tx.wait() is
\* called, without confirmations and without a timeout
AvSent ==
    /\ avPc = "sending"
    /\ avPc' = "waiting"
    /\ avTx' = "pending"
    /\ avWaitStart' = avClock
    /\ avLog' = Append(avLog, "TX:")
    /\ UNCHANGED avClock
    /\ UNCHANGED avOthers

\* profile.setAvatar rejects: main() rejects and the error is logged
AvSendFail ==
    /\ avPc = "sending"
    /\ avPc' = "failed"
    /\ avLog' = Append(avLog, "error")
    /\ UNCHANGED <<avTx, avClock, avWaitStart>>
    /\ UNCHANGED avOthers

\* the chain includes the transaction, successfully or reverted
AvMined(status) ==
    /\ avTx = "pending"
    /\ avTx' = status
    /\ UNCHANGED <<avPc, avClock, avWaitStart, avLog>>
    /\ UNCHANGED avOthers

\* tx.wait() resolves with the receipt of the included transaction
AvWaitOk ==
    /\ avPc = "waiting"
    /\ avTx = "mined"
    /\ avPc' = "done"
    /\ avLog' = Append(avLog, "Avatar set on-chain!")
    /\ UNCHANGED <<avTx, avClock, avWaitStart>>
    /\ UNCHANGED avOthers

\* tx.wait() rejects for the reverted transaction: main() rejects and the
\* error is logged
AvWaitFail ==
    /\ avPc = "waiting"
    /\ avTx = "reverted"
    /\ avPc' = "failed"
    /\ avLog' = Append(avLog, "error")
    /\ UNCHANGED <<avTx, avClock, avWaitStart>>
    /\ UNCHANGED avOthers

\* time passes
AvTick ==
    /\ avClock < MaxClock
    /\ avClock' = avClock + 1
    /\ UNCHANGED <<avPc, avTx, avWaitStart, avLog>>
    /\ UNCHANGED avOthers

\* --------------------------------------------------------- specifications
Init ==
    /\ InitNM /\ InitTracker /\ InitSend /\ InitHookWarmup /\ InitSigningWarmup /\ InitSig
    /\ InitRetry
    /\ InitResend
    /\ InitAvatar
    /\ InitAudit
    /\ InitChunk
    /\ InitTxError
    /\ InitStream
    /\ InitEq

NextNoReset == NMGetNextNonce

Next ==
    \/ NMGetNextNonce
    \/ \E a \in Addresses : NMReset(a)

\* NonceManager with getNextNonce and reset.
Spec == Init /\ [][Next]_vars

\* NonceManager with getNextNonce only.
SpecNoReset == Init /\ [][NextNoReset]_vars

\* The event loop runs the continuation of a resolved await, and every
\* getTransactionCount issued resolves or rejects.
NMFairness ==
    \A c \in Calls :
        /\ WF_vars(NMResume(c))
        /\ WF_vars((\E n \in NetCounts : NMQueryOk(c, n)) \/ NMQueryFail(c))

\* getNextNonce calls whose network queries all complete.
SpecLive == Init /\ [][NextNoReset]_vars /\ NMFairness

NextTracker ==
    \/ \E c \in Calls, a \in Addresses, ch \in Chains : TrackerCall(c, a, ch)
    \/ \E c \in Calls, n \in NetCounts : TrackerQueryOk(c, n)
    \/ \E c \in Calls : TrackerQueryFail(c)

\* The tracker keyed by chain id.
SpecTracker == Init /\ [][NextTracker]_vars

\* one step of the sendTransaction call t
SendStep(t) ==
    \/ SendCall(t)
    \/ SendNoWallet(t)
    \/ SendProvider(t)
    \/ SendNonce(t)
    \/ SendSigned(t)
    \/ SendAccepted(t)
    \/ \E message \in Rejections : SendError(t, message)
    \/ SendThrow(t)

NextSend == \E t \in Txs : SendStep(t)

\* The hook's sendTransaction against the endpoint.
SpecSend == Init /\ [][NextSend]_vars

NextHookWarmup ==
    \E w \in Effects :
        \/ HWEffect(w)
        \/ \E hasWallet \in BOOLEAN : HWSkip(w, hasWallet)
        \/ HWProvider(w)
        \/ HWRpcOk(w)
        \/ HWRequestSign(w)
        \/ HWSignOk(w)
        \/ HWReject(w)

NextHook == NextHookWarmup \/ \E t \in HookTxs : SendStep(t)

\* useMegaETHTransaction: the warmup effect and sendTransaction.
SpecHook == Init /\ [][NextHook]_vars

NextSigningWarmup ==
    \E w \in Warmups :
        \/ SWEffect(w)
        \/ SWNoWallet(w)
        \/ SWProvider(w)
        \/ SWProviderFail(w)
        \/ SWRequestSign(w)
        \/ SWSignOk(w)
        \/ SWSignFail(w)
        \/ SWRetrySign(w)
        \/ SWRetryOk(w)
        \/ SWRetryFail(w)

\* useSigningWarmup.
SpecSigningWarmup == Init /\ [][NextSigningWarmup]_vars

NextSig ==
    \/ ParseLegacy
    \/ ParseEIP1559
    \/ ParseInline

\* The signature parsers, called on any signature and chain id.
InitParse ==
    /\ InitNM /\ InitTracker /\ InitSend /\ InitHookWarmup /\ InitSigningWarmup /\ InitSigArgs
    /\ InitRetry
    /\ InitResend
    /\ InitAvatar
    /\ InitAudit
    /\ InitChunk
    /\ InitTxError
    /\ InitStream
    /\ InitEq

SpecSig == InitParse /\ [][NextSig]_vars

NextRetry ==
    \/ SRCallDefault
    \/ \E maxRetries \in RetryArgs : SRCall(maxRetries)
    \/ SRBlockhashOk
    \/ \E message \in ErrorMessages : SRBlockhashFail(message)
    \/ SRSendOk
    \/ \E message \in ErrorMessages : SRSendFail(message)
    \/ SRNewBlock

\* One submitWithRetry call against a chain that keeps producing blocks.
SpecRetry == Init /\ [][NextRetry]_vars

\* Every awaited request of the call settles.
RetryFairness ==
    /\ WF_vars(SRBlockhashOk \/ \E message \in ErrorMessages : SRBlockhashFail(message))
    /\ WF_vars(SRSendOk \/ \E message \in ErrorMessages : SRSendFail(message))

SpecRetryLive == Init /\ [][NextRetry]_vars /\ RetryFairness

NextResend ==
    \/ \E n \in Signed : RSPost(n)
    \/ \E n \in Signed : RSRequestLost(n)
    \/ \E n \in Signed : RSArrive(n)
    \/ \E n \in Signed : RSResponseLost(n)
    \/ \E n \in Signed : RSExecute(n)

\* Signed transactions posted, and posted again after transport failures.
SpecResend == Init /\ [][NextResend]_vars

NextAvatar ==
    \/ AvMain
    \/ AvSent
    \/ AvSendFail
    \/ \E status \in {"mined", "reverted"} : AvMined(status)
    \/ AvWaitOk
    \/ AvWaitFail
    \/ AvTick

\* One run of set-avatar.js.
SpecAvatar == Init /\ [][NextAvatar]_vars

InitEquiv ==
    /\ InitNM /\ InitTracker /\ InitSend /\ InitHookWarmup /\ InitSigningWarmup /\ InitSig
    /\ InitRetry
    /\ InitResend
    /\ InitAvatar
    /\ InitAudit
    /\ InitChunk
    /\ InitTxError
    /\ InitStream
    /\ InitEqSeeded

NextEquiv == \E n \in 0..MaxEqNet : EqCall(n)

\* The tracker and NonceManager fed the same network answers.
SpecEquiv == InitEquiv /\ [][NextEquiv]_vars

NextStream ==
    \/ StreamConnect
    \/ \E k \in Sockets : StreamOpen(k)
    \/ \E t \in Sockets : StreamKeepalive(t)
    \/ \E k \in Sockets : StreamClose(k)
    \/ StreamReconnect
    \/ \E k \in Sockets, method \in Methods : StreamMessage(k, method)
    \/ \E callback \in Callbacks : StreamSubscribe(callback)
    \/ \E r \in 1..MaxSubscribeCalls : StreamUnsubscribe(r)

\* MegaETHStream: one connect(), the socket's events, the timers,
\* subscribe and unsubscribe.
SpecStream == Init /\ [][NextStream]_vars

\* The connection and the subscribers, without the messages.
NextStreamLife ==
    \/ StreamConnect
    \/ \E k \in Sockets : StreamOpen(k)
    \/ \E t \in Sockets : StreamKeepalive(t)
    \/ \E k \in Sockets : StreamClose(k)
    \/ StreamReconnect
    \/ \E callback \in Callbacks : StreamSubscribe(callback)
    \/ \E r \in 1..MaxSubscribeCalls : StreamUnsubscribe(r)

\* The timers fire; nothing is assumed of the socket's events.
SpecStreamLive == Init /\ [][NextStreamLife]_vars /\ WF_vars(StreamReconnect)

InitHandle ==
    /\ InitNM /\ InitTracker /\ InitSend /\ InitHookWarmup /\ InitSigningWarmup /\ InitSig
    /\ InitRetry
    /\ InitResend
    /\ InitAvatar
    /\ InitAudit
    /\ InitEq
    /\ InitStream
    /\ InitTxErrorArgs
    /\ InitChunk

NextHandle == HandleTxError

\* handleTxError called on any error message.
SpecHandle == InitHandle /\ [][NextHandle]_vars

InitChunking ==
    /\ InitNM /\ InitTracker /\ InitSend /\ InitHookWarmup /\ InitSigningWarmup /\ InitSig
    /\ InitRetry
    /\ InitResend
    /\ InitAvatar
    /\ InitAudit
    /\ InitEq
    /\ InitStream
    /\ InitTxError
    /\ InitChunkArgs

NextChunk ==
    \/ ChunkPush
    \/ ChunkReturn

\* chunkData called on data of any of the lengths.
SpecChunk == InitChunking /\ [][NextChunk]_vars

\* A NonceManager that has been in use: no call is in flight and the first
\* sender's last-used nonce is any value, or absent.
FirstAddr == CHOOSE a \in Addresses : \A b \in Addresses : a <= b

InitSeeded ==
    /\ \E s \in {None} \cup (0..MaxSeed) :
           nonces = [a \in Addresses |-> IF a = FirstAddr THEN s ELSE None]
    /\ locks = [a \in Addresses |-> None]
    /\ resolved = {}
    /\ pc = [c \in Calls |-> "idle"]
    /\ addr = [c \in Calls |-> None]
    /\ waitOn = [c \in Calls |-> None]
    /\ net = [c \in Calls |-> None]
    /\ last = [c \in Calls |-> None]
    /\ result = [c \in Calls |-> None]
    /\ hist = [a \in Addresses |-> <<>>]
    /\ epoch = [a \in Addresses |-> 0]
    /\ InitTracker
    /\ InitSend
    /\ InitHookWarmup
    /\ InitSigningWarmup
    /\ InitSig
    /\ InitRetry
    /\ InitResend
    /\ InitAvatar
    /\ InitAudit
    /\ InitChunk
    /\ InitTxError
    /\ InitStream
    /\ InitEq

NextSeeded ==
    \/ \E c \in Calls : NMCall(c, FirstAddr)
    \/ \E c \in Calls : NMResume(c)
    \/ \E c \in Calls, n \in 0..(MaxSeed + 1) : NMQueryOk(c, n)
    \/ \E c \in Calls : NMQueryFail(c)

\* Concurrent getNextNonce calls of one sender on a NonceManager in use.
SpecSeeded == InitSeeded /\ [][NextSeeded]_vars

\* ------------------------------------------------------------------ claims
Returned(c) == pc[c] = "done"

\* the nonce returned at position i of an address's history
NonceAt(a, i) == result[hist[a][i]]

\* C1: the nonces returned by concurrent getNextNonce calls for one address
\* are pairwise distinct, whatever the network answered and in whatever
\* order the queries completed.
C1_DistinctNonces ==
    \A c, d \in Calls :
        (c # d /\ Returned(c) /\ Returned(d) /\ addr[c] = addr[d])
            => result[c] # result[d]

\* Three calls of one address returned, two of which awaited the same lock
\* promise and so were in flight together.
C1_Witness ==
    \E c, d, e \in Calls :
        /\ c # d /\ c # e /\ d # e
        /\ Returned(c) /\ Returned(d) /\ Returned(e)
        /\ addr[c] = addr[d] /\ addr[d] = addr[e]
        /\ waitOn[c] # None /\ waitOn[c] = waitOn[d]

\* C2: no two getNextNonce calls for the same address are between
\* locks.set and the finally block at the same time.
C2_MutualExclusion ==
    \A c, d \in Calls :
        (c # d /\ addr[c] = addr[d]) => ~(pc[c] = "querying" /\ pc[d] = "querying")

\* C3 as claimed: every nonce returned for an address is greater than every
\* nonce returned for it before, resets included.
C3_IncreasingAcrossResets ==
    \A a \in Addresses : \A i, j \in 1..Len(hist[a]) :
        i < j => NonceAt(a, i) < NonceAt(a, j)

\* C3 as amended: every nonce returned for an address is greater than every
\* nonce returned for it since the last reset of that address.
C3_IncreasingSinceReset ==
    \A a \in Addresses : \A i, j \in 1..Len(hist[a]) :
        (epoch[a] < i /\ i < j) => NonceAt(a, i) < NonceAt(a, j)

\* After a reset two calls returned, the second on a network count that lags
\* behind the nonce already issued.
C3_Witness ==
    \E a \in Addresses :
        /\ epoch[a] > 0
        /\ Len(hist[a]) >= epoch[a] + 2
        /\ net[hist[a][Len(hist[a])]] <= NonceAt(a, Len(hist[a]) - 1)

\* C4: without reset the tracked last-used nonce of an address never
\* decreases, and a call whose network count is at most the last-used nonce
\* returns and stores last-used + 1.
C4_LocalNeverDecreases ==
    [][ /\ \A a \in Addresses : LastUsed(a)' >= LastUsed(a)
        /\ \A c \in Calls :
              (pc[c] = "querying" /\ pc'[c] = "done" /\ net'[c] <= LastUsed(addr[c]))
                 => /\ result'[c] = LastUsed(addr[c]) + 1
                    /\ LastUsed(addr[c])' = LastUsed(addr[c]) + 1 ]_vars

\* A call returned on a network count below the last-used nonce it read.
C4_Witness ==
    \E c \in Calls : Returned(c) /\ last[c] >= 1 /\ net[c] < last[c]

\* C5: a reservation returns the larger of the network count and the local
\* next value (last-used + 1) and leaves the local next value at the
\* returned value + 1; with no local state it returns the network count;
\* local next 5 and network count 5 return 5 and leave next at 6.
C5_ReturnsMax ==
    [][ \A c \in Calls :
          (pc[c] = "querying" /\ pc'[c] = "done")
             => /\ result'[c] >= net'[c]
                /\ result'[c] >= LastUsed(addr[c]) + 1
                /\ result'[c] \in {net'[c], LastUsed(addr[c]) + 1}
                /\ LastUsed(addr[c])' = result'[c]
                /\ nonces[addr[c]] = None => result'[c] = net'[c]
                /\ (LastUsed(addr[c]) + 1 = 5 /\ net'[c] = 5)
                      => (result'[c] = 5 /\ LastUsed(addr[c])' + 1 = 6) ]_vars

\* The scenario itself: last-used 4, network count 5, nonce 5 returned and stored.
C5_Witness ==
    \E c \in Calls :
        Returned(c) /\ last[c] = 4 /\ net[c] = 5 /\ result[c] = 5 /\ nonces[addr[c]] = 5

\* C6: while the network count does not exceed the local next value n, the
\* next k reservations of the address return n, n+1, ..., n+k-1: no gap and
\* no repeat.
C6_ContiguousRun ==
    \A a \in Addresses : \A i, j \in 1..Len(hist[a]) :
        (i <= j /\ \A m \in i..j : net[hist[a][m]] <= last[hist[a][i]] + 1)
            => \A m \in i..j : NonceAt(a, m) = last[hist[a][i]] + 1 + (m - i)

\* Two calls in flight together with next = 6 returned 6 and 7.
C6_Witness ==
    \E c, d \in Calls :
        /\ c # d /\ Returned(c) /\ Returned(d) /\ addr[c] = addr[d]
        /\ waitOn[d] = c
        /\ last[c] = 5 /\ net[c] <= 6 /\ net[d] <= 6
        /\ {result[c], result[d]} = {6, 7}

\* C8 as claimed: a reservation whose network query failed still returns a
\* sequence number.
C8_FallsBackOnQueryFailure ==
    \A c \in Calls : net[c] = NetError => (Returned(c) /\ result[c] # None)

\* C8 as amended: a reservation whose network query failed fails with it and
\* returns no sequence number.
C8_QueryFailurePropagates ==
    \A c \in Calls : net[c] = NetError => (pc[c] = "threw" /\ result[c] = None)

\* A query failed for an address that has a last known local value.
C8_Witness ==
    \E c \in Calls : net[c] = NetError /\ nonces[addr[c]] # None

\* C9: getNextNonce and reset on one address leave the tracked nonce and the
\* lock entry of every other address unchanged, and no call waits on a lock
\* promise made for another address.
OpOn(a) ==
    \/ NMReset(a)
    \/ \E c \in Calls :
          /\ addr'[c] = a
          /\ \/ NMCall(c, a)
             \/ NMResume(c)
             \/ \E n \in NetCounts : NMQueryOk(c, n)
             \/ NMQueryFail(c)

C9_OtherAddressesUntouched ==
    /\ [][ \A a \in Addresses :
             OpOn(a) => \A b \in Addresses \ {a} :
                           nonces'[b] = nonces[b] /\ locks'[b] = locks[b] ]_vars
    /\ [](\A c \in Calls : pc[c] = "waiting" => addr[waitOn[c]] = addr[c])

\* A later call for one address returned while an earlier call for another
\* address still holds that address's lock.
C9_Witness ==
    \E c, d \in Calls :
        /\ c < d /\ addr[c] # addr[d] /\ addr[c] # None
        /\ pc[c] = "querying" /\ locks[addr[c]] = c
        /\ Returned(d) /\ waitOn[d] = None /\ nonces[addr[d]] # None

\* C7: when a transaction whose nonce was reserved failed before the
\* endpoint accepted it and the endpoint still reports that nonce as the
\* pending count, the next reservation takes that nonce again.
C7_FailedNonceReused ==
    \A t, u \in Txs :
        (/\ t \in txAfter[u]
         /\ txNonce[t] # None
         /\ txNet[u] = txNonce[t])
            => txNonce[u] = txNonce[t]

\* C10: the nonce the tracker returns for an address is the one its own
\* pending count and its own earlier nonces on that chain give, whatever was
\* reserved for other addresses of the chain.
OwnLast(ch, i) ==
    LET own == {j \in 1..(i - 1) : tAddr[tHist[ch][j]] = tAddr[tHist[ch][i]]}
    IN  IF own = {} THEN -1
        ELSE tResult[tHist[ch][CHOOSE j \in own : \A k \in own : k <= j]]

C10_OwnEntryPerAddress ==
    \A ch \in Chains : \A i \in 1..Len(tHist[ch]) :
        tResult[tHist[ch][i]] = TrackerNext(tNet[tHist[ch][i]], OwnLast(ch, i))

\* C11: the lock of an address is held only by a call between locks.set and
\* the finally block: a call that has returned or thrown has resolved its
\* promise and is no lock entry, and a waiter is held up only by a call
\* still reserving; so the next reservation completes, with the next higher
\* nonce, while the earlier nonce's transaction is still under way.
C11_LockCoversReservationOnly ==
    /\ \A a \in Addresses :
          locks[a] # None => (pc[locks[a]] = "querying" /\ addr[locks[a]] = a)
    /\ \A c \in Calls : pc[c] \in {"done", "threw"} => c \in resolved
    /\ \A c \in Calls :
          (pc[c] = "waiting" /\ waitOn[c] \notin resolved) => pc[waitOn[c]] = "querying"

\* A call made after an earlier call of the address returned never waited and
\* returned the next higher nonce; nothing has been reset or confirmed since.
C11_Witness ==
    \E c, d \in Calls :
        /\ c < d /\ addr[c] = addr[d]
        /\ Returned(c) /\ Returned(d)
        /\ waitOn[d] = None
        /\ epoch[addr[c]] = 0
        /\ result[d] = result[c] + 1

\* C12: every getNextNonce call that waits on a lock promise or on its
\* network query eventually returns or throws.
C12_EveryCallEnds ==
    \A c \in Calls :
        (pc[c] \in {"waiting", "querying"}) ~> (pc[c] \in {"done", "threw"})

\* Two calls that awaited the same lock promise have both ended.
C12_Witness ==
    \E c, d \in Calls :
        /\ c # d /\ waitOn[c] # None /\ waitOn[c] = waitOn[d]
        /\ pc[c] \in {"done", "threw"} /\ pc[d] \in {"done", "threw"}

\* C13: of the runs of the warmup effect that overlap in time, only one
\* issues a dummy secp256k1_sign request.
C13_OneRequestPerOverlap ==
    \A w \in Effects : \A v \in hwOverlap[w] :
        ~(hwSigns[w] >= 1 /\ hwSigns[v] >= 1)

\* C14: one warmup() issues at most two dummy signing requests; it has
\* issued the second only after the first was rejected and the backoff
\* timer fired, and not when the first succeeded.
C14_AtMostOneRetry ==
    \A w \in Warmups :
        /\ swSigns[w] <= 2
        /\ swSigns[w] = 2 => (swFailed[w] >= 1 /\ swPc[w] \in {"sign2", "done", "rejected"})
        /\ swPc[w] = "backoff" => (swFailed[w] = 1 /\ swSigns[w] = 1)
        /\ swLogged[w] => (swSigns[w] = 1 /\ swFailed[w] = 0 /\ swPc[w] = "done")

\* One warmup() retried after a failure, another succeeded at once.
C14_Witness ==
    \E w, v \in Warmups :
        /\ swSigns[w] = 2 /\ swPc[w] = "done"
        /\ swLogged[v] /\ swSigns[v] = 1

C16_WarmStaysWarm == [][isWarmedUp => isWarmedUp']_vars

\* The session is warm after an overlapping run of the effect was rejected
\* and a sendTransaction call threw.
C16_Witness ==
    /\ isWarmedUp
    /\ \E w \in Effects : hwPc[w] = "rejected" /\ hwOverlap[w] # {}
    /\ \E t \in Txs : txPc[t] = "threw" /\ txNonce[t] # None

\* C17: sendTransaction issues its secp256k1_sign request only when no
\* warmup is in flight and the session is warm or a warmup has finished.
C17_SignWaitsForWarmup ==
    [][ \A t \in Txs :
          (txPc[t] = "nonce" /\ txPc'[t] = "signing")
             => /\ ~\E w \in Effects : HWInFlight(w)
                /\ isWarmedUp \/ \E w \in Effects : hwPc[w] \in {"done", "rejected"} ]_vars

\* C18: both parsers reduce the raw recovery bytes 0, 1, 27 and 28 to
\* 0, 1, 0 and 1: the two encodings of one parity give the same value.
C18_RecoveryNormalized ==
    LET b == IF parsed.fn = "parseSignature" THEN parsed.v - (2 * parsed.chainId + 35)
             ELSE parsed.yParity
    IN  parsed.fn \in {"parseSignature", "parseSignatureEIP1559"} =>
           /\ parsed.raw \in {0, 27} => b = 0
           /\ parsed.raw \in {1, 28} => b = 1

\* parseSignatureEIP1559 was called on a signature whose last byte is 28.
C18_Witness ==
    /\ parsed.fn = "parseSignatureEIP1559"
    /\ parsed.raw = 28
    /\ Slice(parsed.signature, 130, 132) = <<"1", "c">>
    /\ parsed.yParity = 1

\* C19: for the recovery bytes that normalize to a bit b in {0, 1},
\* parseSignature returns v = 2 * chainId + 35 + b, and b and the chain id
\* are (v - 35) mod 2 and (v - 35) div 2.
C19_LegacyV ==
    (parsed.fn = "parseSignature" /\ parsed.raw \in {0, 1, 27, 28}) =>
        LET b == IF parsed.raw \in {0, 27} THEN 0 ELSE 1
        IN  /\ parsed.v = 2 * parsed.chainId + 35 + b
            /\ (parsed.v - 35) % 2 = b
            /\ (parsed.v - 35) \div 2 = parsed.chainId

\* parseSignature was called with the largest chain id on a signature whose
\* last byte is 28.
C19_Witness ==
    /\ parsed.fn = "parseSignature"
    /\ parsed.raw = 28
    /\ parsed.chainId = MaxChainId
    /\ parsed.v = 2 * MaxChainId + 36

\* the attempts of the call that were rejected with a blockhash error
ExpiredAttempts == {k \in 1..Len(srLog) : IncludesBlockhash(srLog[k].outcome)}

\* C20: submitWithRetry makes at most maxRetries sendTransaction calls,
\* has thrown 'Transaction expired' once maxRetries of them were rejected as
\* expired, makes no call after it has ended, and always ends.
C20_BoundedRetries ==
    /\ [](srMax # None => Len(srLog) <= srMax)
    /\ []((srMax # None /\ srMax > 0 /\ Cardinality(ExpiredAttempts) = srMax)
             => (srPc = "threw" /\ srThrown = "Transaction expired"))
    /\ [][(srPc \in {"returned", "threw"}) => UNCHANGED <<srPc, srLog, srThrown>>]_vars
    /\ (srPc \in {"blockhash", "sending"}) ~> (srPc \in {"returned", "threw"})

\* The call with the default maxRetries made three attempts, each rejected
\* as expired, and threw 'Transaction expired'.
C20_Witness ==
    /\ srMax = DefaultMaxRetries
    /\ Len(srLog) = DefaultMaxRetries
    /\ \A k \in 1..Len(srLog) : IncludesBlockhash(srLog[k].outcome)
    /\ srPc = "threw"
    /\ srThrown = "Transaction expired"

\* C21: a sendTransaction call rejected with an error of the error table
\* (not a blockhash error) is the last one made, and submitWithRetry has
\* thrown that error.
C21_RejectionTerminal ==
    \A k \in 1..Len(srLog) :
        srLog[k].outcome \in Rejections =>
            /\ k = Len(srLog)
            /\ srPc = "threw"
            /\ srThrown = srLog[k].outcome
            /\ srResult = None

\* The second attempt was rejected with 'nonce too low' while a third was
\* still allowed.
C21_Witness ==
    /\ srMax = DefaultMaxRetries
    /\ Len(srLog) = 2
    /\ IncludesBlockhash(srLog[1].outcome)
    /\ srLog[2].outcome = "nonce too low"
    /\ srThrown = "nonce too low"

\* C22: a sendTransaction call that failed in transport, with fewer than
\* maxRetries calls made, is not surfaced: the call has not thrown it.
C22_TransportRetried ==
    \A k \in 1..Len(srLog) :
        (srLog[k].outcome = "fetch failed" /\ k < srMax) =>
            ~(srPc = "threw" /\ srThrown = "fetch failed")

\* C23: the sendTransaction call after one rejected with a blockhash error
\* carries a blockhash different from the rejected one.
C23_FreshReference ==
    \A k \in 2..Len(srLog) :
        IncludesBlockhash(srLog[k - 1].outcome) => srLog[k].blockhash # srLog[k - 1].blockhash

\* C24: the sendTransaction call that was accepted is the last one made,
\* and submitWithRetry has returned its result; it returns no other way.
C24_StopsAtFirstAccepted ==
    /\ \A k \in 1..Len(srLog) :
          srLog[k].outcome = "accepted" =>
              (k = Len(srLog) /\ srPc = "returned" /\ srResult = k /\ srThrown = "none")
    /\ srPc = "returned" => (srResult = Len(srLog) /\ srLog[Len(srLog)].outcome = "accepted")

\* The first attempt was rejected as expired, the second accepted, and a
\* third was still allowed.
C24_Witness ==
    /\ srMax = DefaultMaxRetries
    /\ Len(srLog) = 2
    /\ IncludesBlockhash(srLog[1].outcome)
    /\ srLog[2].outcome = "accepted"
    /\ srPc = "returned"
    /\ srResult = 2

\* C26: the transaction record passed to submitWithRetry keeps its fields
\* once it has been submitted.
C26_RecordUnmodified ==
    [][(Len(srLog) >= 1) => srBlockhash' = srBlockhash]_vars

\* the receipts issued for nonce n
ReceiptsOf(n) == {i \in 1..Len(epReceipts) : epReceipts[i] = n}

\* C25: however often a signed transaction is posted again after a
\* transport failure, the endpoint takes its nonce into the pool at most
\* once and issues at most one receipt for it; a duplicate of an executed
\* transaction is answered 'nonce too low', of a pooled one 'already known'.
C25_OneAcceptancePerNonce ==
    \A n \in Signed :
        /\ epAdmitted[n] <= 1
        /\ Cardinality(ReceiptsOf(n)) <= 1
        /\ rsPc[n] = "nonce too low" => (rsSends[n] >= 2 /\ ReceiptsOf(n) # {})
        /\ rsPc[n] = "already known" => (rsSends[n] >= 2 /\ epAdmitted[n] = 1)

\* A transaction was executed while its response was lost, and its
\* repost was answered 'nonce too low'.
C25_Witness ==
    \E n \in Signed :
        /\ rsSends[n] = 2
        /\ rsPc[n] = "nonce too low"
        /\ Cardinality(ReceiptsOf(n)) = 1
        /\ epAdmitted[n] = 1

\* the sendTransaction calls that posted and have ended
Ended(t) == txPosts[t] >= 1 /\ txPc[t] \in {"done", "threw"}

\* C27 as stated: a call that posted ends either with the receipt returned
\* or with the message of the response's error thrown.
C27_TwoOutcomesOnly ==
    \A t \in Txs :
        Ended(t) =>
            \/ txPc[t] = "done" /\ txResponse[t] = "receipt"
            \/ txPc[t] = "threw" /\ txResponse[t] \in Rejections /\ txThrown[t] = txResponse[t]

\* C27: a call that posted made one post; with a response it has ended
\* either returning the receipt (no error carried) or throwing the message
\* of the error carried; without a response it has thrown the rejection of
\* the request.
C27_OutcomeFollowsResponse ==
    \A t \in Txs :
        /\ txPosts[t] <= 1
        /\ txResponse[t] = "receipt" => (txPc[t] = "done" /\ txThrown[t] = "none")
        /\ txResponse[t] \in Rejections => (txPc[t] = "threw" /\ txThrown[t] = txResponse[t])
        /\ txPc[t] = "done" => (txResponse[t] = "receipt" /\ txPosts[t] = 1)
        /\ (Ended(t) /\ txResponse[t] = "none") => (txPc[t] = "threw" /\ txThrown[t] = "rejected")

\* One call returned a receipt and another threw the endpoint's error.
C27_Witness ==
    \E t, u \in Txs :
        /\ txPc[t] = "done" /\ txResponse[t] = "receipt"
        /\ txPc[u] = "threw" /\ txThrown[u] = "nonce too low" /\ txPosts[u] = 1

\* C28: the wait for the receipt has a deadline: there is a number of
\* ticks that no tx.wait() still pending has lasted.
C28_WaitEndsAtDeadline ==
    \E deadline \in 1..MaxClock :
        avPc = "waiting" => avClock - avWaitStart < deadline

\* C29: the record of attempts has one entry for every sendTransaction
\* call submitWithRetry has made.
C29_OneRecordPerAttempt == Len(auditLog) = Len(srLog)

\* C30: the step in which the network query of a getNextNonce call throws
\* leaves every tracked nonce as it was, resolves the call's promise and
\* removes the lock of its address; no call waits on the promise of a call
\* that threw.
C30_FailureReleasesLock ==
    /\ [][\A c \in Calls :
            (pc[c] = "querying" /\ pc'[c] = "threw") =>
                /\ nonces' = nonces
                /\ c \in resolved'
                /\ locks'[addr[c]] = None]_vars
    /\ [](\A d \in Calls :
            (pc[d] = "waiting" /\ pc[waitOn[d]] = "threw") => waitOn[d] \in resolved)

\* The query of one call threw; the next call for the same address, made
\* after it, entered without waiting and returned a nonce.
C30_Witness ==
    \E c, d \in Calls :
        /\ c < d /\ addr[c] = addr[d]
        /\ pc[c] = "threw" /\ pc[d] = "done"
        /\ waitOn[d] = None
        /\ \A e \in Calls \ {c, d} : pc[e] = "idle"

\* C31: fed the same network answers, the tracker and NonceManager return
\* the same nonce and hold the same last-used value after every call.
C31_TrackerMatchesManager ==
    /\ eqTracker = eqManager
    /\ eqOut[1] = eqOut[2]
    /\ eqSteps >= 1 => (eqTracker = eqOut[1] /\ eqManager = eqOut[2])

\* Three calls were made, the first with nothing tracked (-1), the last
\* with the network's answer equal to the last-used value.
C31_Witness ==
    /\ eqSteps = 3
    /\ eqIn[1] = eqIn[2]
    /\ eqOut = <<eqIn[2] + 1, eqIn[2] + 1>>
    /\ eqTracker = 2

\* C32: isWarmedUp.current is true only when a run of the warmup effect has
\* had its dummy secp256k1_sign request answered; a run that was rejected
\* at getBlockNumber or at the dummy request does not set it, so with no
\* completed run it is false.
C32_WarmOnlyAfterSign ==
    /\ isWarmedUp => \E w \in Effects : hwPc[w] = "done" /\ hwSigns[w] = 1
    /\ (\A w \in Effects : hwPc[w] # "done") => ~isWarmedUp

\* One run of the effect was rejected after it had requested the dummy
\* signature and the session is not warm; no run has completed.
C32_Witness ==
    /\ ~isWarmedUp
    /\ \E w \in Effects : hwPc[w] = "rejected" /\ hwSigns[w] = 1
    /\ \E w \in Effects : hwPc[w] = "rejected" /\ hwSigns[w] = 0
    /\ \A w \in Effects : hwPc[w] # "done"

\* C33: on one signature, sendTransaction's own parsing extracts the r and
\* s that parseSignature and parseSignatureEIP1559 extract; its v is
\* 2 * CHAIN_ID + 35 + b for the normalized recovery value b that
\* parseSignatureEIP1559 returns, and parseSignature's v is
\* 2 * chainId + 35 + b for the same b, so the two v are equal when
\* parseSignature is given CHAIN_ID.
C33_ParsersAgree ==
    (inline # NotParsed) =>
        /\ (parsed.fn \in {"parseSignature", "parseSignatureEIP1559"}) =>
               (inline.r = parsed.r /\ inline.s = parsed.s)
        /\ (parsed.fn = "parseSignatureEIP1559") =>
               inline.v = 2 * CHAIN_ID + 35 + parsed.yParity
        /\ (parsed.fn = "parseSignature") =>
               /\ parsed.v - (2 * parsed.chainId + 35) = inline.v - (2 * CHAIN_ID + 35)
               /\ parsed.chainId = CHAIN_ID => parsed.v = inline.v

\* parseSignature was given CHAIN_ID and a signature whose last byte is 28,
\* with r and s that differ, and sendTransaction parsed the same signature.
C33_Witness ==
    /\ parsed.fn = "parseSignature"
    /\ parsed.chainId = CHAIN_ID
    /\ parsed.raw = 28
    /\ parsed.r # parsed.s
    /\ inline.v = 12722

\* parseSignatureEIP1559 and sendTransaction parsed one signature whose
\* last byte is 27.
C33_WitnessEIP1559 ==
    /\ parsed.fn = "parseSignatureEIP1559"
    /\ parsed.raw = 27
    /\ parsed.yParity = 0
    /\ inline.v = 12721

\* C34: after the one connect() call, at most one WebSocket is connecting
\* or open and at most one keepalive interval is running; a running
\* interval belongs to the open socket this.ws, none runs while a
\* reconnect is pending, and every keepalive was sent on an open socket.
C34_OneSocketOneTimer ==
    /\ Cardinality({k \in Sockets : wsState[k] \in {"connecting", "open"}}) <= 1
    /\ Cardinality({t \in Sockets : timers[t] = "active"}) <= 1
    /\ \A t \in Sockets : timers[t] = "active" => (ws = t /\ wsState[t] = "open")
    /\ reconnects > 0 => \A t \in Sockets : timers[t] # "active"
    /\ \A k \in Sockets : \A i \in 1..Len(sent[k]) :
           sent[k][i].request = "eth_chainId" => sent[k][i].readyState = "open"

\* The first connection sent a keepalive and closed, the second closed
\* before it opened, the third is open with its interval running.
C34_Witness ==
    /\ wsState = <<"closed", "closed", "open">>
    /\ timers = <<"cleared", "none", "active">>
    /\ Len(sent[1]) = 2
    /\ sent[2] = <<>>
    /\ keepaliveInterval = 3

\* C35: every close of a connection is eventually followed by a new
\* WebSocket (up to the number of sockets considered); on every connection
\* that has opened the first request sent is the miniBlocks subscription,
\* before any keepalive; and no step that changes the connection changes
\* this.subscribers.
C35_ReconnectAndResubscribe ==
    /\ \A k \in 1..(MaxSockets - 1) : (wsState[k] = "closed") ~> (wsState[k + 1] # "none")
    /\ [](\A k \in Sockets :
            /\ wsState[k] = "open" => sent[k] # <<>>
            /\ sent[k] # <<>> => /\ sent[k][1].request = "eth_subscribe"
                                  /\ \A i \in 2..Len(sent[k]) : sent[k][i].request = "eth_chainId")
    /\ [][(ws' # ws \/ wsState' # wsState) => subscribers' = subscribers]_vars

\* The first connection closed; the second has opened and sent the
\* subscription and then a keepalive, and the callback subscribed before
\* is still a subscriber.
C35_Witness ==
    /\ wsState[1] = "closed" /\ wsState[2] = "open"
    /\ Len(sent[1]) = 1
    /\ Len(sent[2]) = 2 /\ sent[2][2].request = "eth_chainId"
    /\ subscribers = {1}
    /\ regs = <<[callback |-> 1, unsubscribed |-> FALSE]>>

\* the callbacks with a subscribe() call whose returned function has not
\* been called
Registered == {regs[r].callback : r \in {q \in 1..Len(regs) : ~regs[q].unsubscribed}}

Matching == {i \in 1..Len(TX_ERRORS) : Includes(txError.message, TX_ERRORS[i].pattern)}

\* C37: handleTxError returns, for every message, the text of the first
\* entry of the table (in the order nonce too low, already known,
\* intrinsic gas too low, insufficient funds) whose pattern the message
\* includes, and 'Transaction failed' when it includes none.
C37_FirstMatchInTableOrder ==
    (txError.fn = "handleTxError") =>
        /\ txError.returned \in
               {"Transaction already executed", "Transaction pending", "Increase gas limit",
                "Not enough ETH for gas", "Transaction failed"}
        /\ Matching = {} => txError.returned = "Transaction failed"
        /\ Matching # {} =>
               \E i \in Matching :
                   /\ \A j \in Matching : i <= j
                   /\ txError.returned = TX_ERRORS[i].message
        /\ (1 \in Matching) = (txError.returned = "Transaction already executed")
        /\ (Matching = {4}) = (txError.returned = "Not enough ETH for gas")

\* The message has 'already known' before 'nonce too low': the entry first
\* in the table decided, not the one first in the message.
C37_Witness ==
    /\ txError.fn = "handleTxError"
    /\ txError.message = <<"already", "known", "nonce", "too", "low">>
    /\ txError.returned = "Transaction already executed"

\* the chunks put together in order
RECURSIVE Flatten(_)
Flatten(chunks) == IF chunks = <<>> THEN <<>> ELSE Head(chunks) \o Flatten(Tail(chunks))

\* C38: the chunks chunkData returns, put together in order, are the
\* input; none is empty or longer than CHUNK_SIZE, all but the last have
\* exactly CHUNK_SIZE elements, and there are ceil(length / CHUNK_SIZE) of
\* them, none for empty input.
C38_ChunksLossless ==
    (chPc = "done") =>
        /\ Flatten(chChunks) = chData
        /\ \A k \in 1..Len(chChunks) :
               /\ Len(chChunks[k]) >= 1
               /\ Len(chChunks[k]) <= CHUNK_SIZE
               /\ k < Len(chChunks) => Len(chChunks[k]) = CHUNK_SIZE
        /\ Len(chChunks) = (Len(chData) + CHUNK_SIZE - 1) \div CHUNK_SIZE
        /\ chData = <<>> => chChunks = <<>>

\* chunkData returned for an input one element longer than two chunks:
\* three chunks, the last with one element.
C38_Witness ==
    /\ chPc = "done"
    /\ Len(chData) = 2 * CHUNK_SIZE + 1
    /\ Len(chChunks) = 3
    /\ Len(chChunks[3]) = 1

====
